---- MODULE Spec2Model ----
(***************************************************************************)
(* Model of src/get_data.py: the three-stage enrichment pipeline           *)
(* process = get_app_ids ; get_game_sizes ; get_game_review_ratios, each   *)
(* stage fanning out aiohttp fetches and joining them with asyncio.gather. *)
(*                                                                         *)
(* Texts are sequences of lexemes: a lexeme is one character, or one whole *)
(* label word ("Storage:", "Memory:").  Floats are exact rationals         *)
(* [n |-> numerator, d |-> denominator].                                   *)
(***************************************************************************)
EXTENDS Integers, Sequences, FiniteSets, TLC

VARIABLES pc, input_names, game_names, app_ids, not_found_ids, tasks,
          out_of_order, sizes, review_ratios, new_data, error, text

vars == <<pc, input_names, game_names, app_ids, not_found_ids, tasks,
          out_of_order, sizes, review_ratios, new_data, error, text>>

\* ----------------------------------------------------------------- bounds
MaxNames == 2
MaxCount == 1
MaxDigits == 2

\* ------------------------------------------------------------- the world
\* Python's None in app_ids: a value that is no identifier and not -1.
None == -2

\* APP_NAME_TO_ID_DICT, the name -> appid table loaded at import time.
APP_NAME_TO_ID_DICT == [name \in {"Half-Life 2"} |-> 220]

\* Names a caller may pass: one key of the table, one name that is not.
GameNames == {"Half-Life 2", "portal"}

Rat(n, d) == [n |-> n, d |-> d]

\* size_list.append(-1)
SizeSentinel == Rat(-1, 1)

\* --------------------------------------------------------- small helpers
Range(s) == {s[i] : i \in DOMAIN s}

SeqsUpTo(S, n) == UNION {[1..k -> S] : k \in 1..n}

\* ------------------------------------------------------- the fetch layer
\* What the three endpoints can answer.  A search page either has no
\* search_result_row, or a first row carrying data-ds-appid and a title, or
\* a row the extraction cannot use (no attribute, non-integer attribute).
SearchResponses ==
    { [kind |-> "no_result"],
      [kind |-> "found", appid |-> 400, title |-> "Portal"],
      [kind |-> "bad_row"] }

Pending == [kind |-> "pending"]

\* asyncio.ensure_future(async_req(session, url, resp_type))
NewTask(endpoint, arg) ==
    [url |-> [endpoint |-> endpoint, arg |-> arg], status |-> "pending",
     result |-> Pending]

AllDone(ts) == \A k \in DOMAIN ts : ts[k].status = "done"

\* await asyncio.gather(*tasks): results in the order of the task list.
Gather(ts) == [k \in DOMAIN ts |-> ts[k].result]

\* An exception nobody catches leaves process: the locals of the abandoned
\* coroutines are gone (game_names, the caller's list, is not).
Unwind(exc) ==
    /\ pc' = "failed"
    /\ error' = exc
    /\ app_ids' = <<>>
    /\ not_found_ids' = <<>>
    /\ tasks' = <<>>
    /\ out_of_order' = FALSE
    /\ sizes' = <<>>
    /\ review_ratios' = <<>>
    /\ new_data' = <<>>

\* ---------------------------------------------------------- get_app_ids
\* Variant of ScheduleSearches that never consults the table.
RECURSIVE ScheduleAllSearches(_, _, _)
ScheduleAllSearches(names, i, acc) ==
    IF i > Len(names) THEN acc
    ELSE ScheduleAllSearches(names, i + 1,
            [app_ids |-> Append(acc.app_ids, None),
             tasks |-> Append(acc.tasks, NewTask("search", names[i])),
             not_found_ids |-> Append(acc.not_found_ids, i)])

\* Lines 77-85: the lookup-or-schedule loop, from position i on.
RECURSIVE ScheduleSearches(_, _, _)
ScheduleSearches(names, i, acc) ==
    IF i > Len(names) THEN acc
    ELSE IF names[i] \in DOMAIN APP_NAME_TO_ID_DICT
         THEN ScheduleSearches(names, i + 1,
                [acc EXCEPT !.app_ids =
                                Append(@, APP_NAME_TO_ID_DICT[names[i]])])
         ELSE ScheduleSearches(names, i + 1,
                [app_ids |-> Append(acc.app_ids, None),
                 tasks |-> Append(acc.tasks, NewTask("search", names[i])),
                 not_found_ids |-> Append(acc.not_found_ids, i)])

NoSchedule == [app_ids |-> <<>>, tasks |-> <<>>, not_found_ids |-> <<>>]

\* Variant of ParseSearch without the except clause.
RECURSIVE ParseSearchNoCatch(_, _, _, _, _)
ParseSearchNoCatch(responses, nf, i, ids, names) ==
    IF i > Len(responses)
    THEN [app_ids |-> ids, game_names |-> names, error |-> "None"]
    ELSE IF responses[i].kind = "found"
         THEN ParseSearchNoCatch(responses, nf, i + 1,
                    [ids EXCEPT ![nf[i]] = responses[i].appid],
                    [names EXCEPT ![nf[i]] = responses[i].title])
         ELSE IF responses[i].kind = "no_result"
         THEN [app_ids |-> ids, game_names |-> names, error |-> "TypeError"]
         ELSE [app_ids |-> ids, game_names |-> names, error |-> "KeyError"]

\* Variant of ParseSearch whose except clause stores 0.
RECURSIVE ParseSearchZeroSentinel(_, _, _, _, _)
ParseSearchZeroSentinel(responses, nf, i, ids, names) ==
    IF i > Len(responses)
    THEN [app_ids |-> ids, game_names |-> names, error |-> "None"]
    ELSE IF responses[i].kind = "found"
         THEN ParseSearchZeroSentinel(responses, nf, i + 1,
                    [ids EXCEPT ![nf[i]] = responses[i].appid],
                    [names EXCEPT ![nf[i]] = responses[i].title])
         ELSE IF responses[i].kind = "no_result"
         THEN ParseSearchZeroSentinel(responses, nf, i + 1,
                    [ids EXCEPT ![nf[i]] = 0], names)
         ELSE [app_ids |-> ids, game_names |-> names, error |-> "KeyError"]

\* Variant of ParseSearch that reads the index list from its other end.
RECURSIVE ParseSearchReversed(_, _, _, _, _)
ParseSearchReversed(responses, nf, i, ids, names) ==
    IF i > Len(responses)
    THEN [app_ids |-> ids, game_names |-> names, error |-> "None"]
    ELSE LET p == nf[Len(responses) + 1 - i] IN
         IF responses[i].kind = "found"
         THEN ParseSearchReversed(responses, nf, i + 1,
                    [ids EXCEPT ![p] = responses[i].appid],
                    [names EXCEPT ![p] = responses[i].title])
         ELSE IF responses[i].kind = "no_result"
         THEN ParseSearchReversed(responses, nf, i + 1,
                    [ids EXCEPT ![p] = -1], names)
         ELSE [app_ids |-> ids, game_names |-> names, error |-> "KeyError"]

\* Lines 90-103: the extraction loop over the gathered responses, from
\* response i on.  TypeError (no search_result_row) is caught; anything
\* else raised by the extraction leaves the loop.
RECURSIVE ParseSearch(_, _, _, _, _)
ParseSearch(responses, nf, i, ids, names) ==
    IF i > Len(responses)
    THEN [app_ids |-> ids, game_names |-> names, error |-> "None"]
    ELSE IF responses[i].kind = "found"
         THEN ParseSearch(responses, nf, i + 1,
                    [ids EXCEPT ![nf[i]] = responses[i].appid],
                    [names EXCEPT ![nf[i]] = responses[i].title])
         ELSE IF responses[i].kind = "no_result"
         THEN ParseSearch(responses, nf, i + 1,
                    [ids EXCEPT ![nf[i]] = -1], names)
         ELSE [app_ids |-> ids, game_names |-> names, error |-> "KeyError"]

\* Lines 71-85: everything get_app_ids does before it suspends in gather.
GetAppIdsSchedule ==
    /\ pc = "start"
    /\ LET s == ScheduleSearches(game_names, 1, NoSchedule) IN
         /\ app_ids' = s.app_ids
         /\ tasks' = s.tasks
         /\ not_found_ids' = s.not_found_ids
    /\ out_of_order' = FALSE
    /\ pc' = "searching"
    /\ UNCHANGED <<input_names, game_names, sizes, review_ratios, new_data,
                   error, text>>

\* Lines 87-109: gather returns, the responses are parsed, the two
\* assertions are evaluated and get_app_ids returns.
GetAppIdsParse ==
    /\ pc = "searching"
    /\ AllDone(tasks)
    /\ LET r == ParseSearch(Gather(tasks), not_found_ids, 1,
                            app_ids, game_names) IN
         /\ game_names' = r.game_names
         /\ IF r.error # "None"
            THEN Unwind(r.error)
            ELSE IF None \in Range(r.app_ids)
                    \/ Len(r.app_ids) # Len(r.game_names)
            THEN Unwind("AssertionError")
            ELSE /\ app_ids' = r.app_ids
                 /\ pc' = "resolved"
                 /\ UNCHANGED <<not_found_ids, tasks, out_of_order, sizes,
                                review_ratios, new_data, error>>
    /\ UNCHANGED <<input_names, text>>

\* ----------------------------------------------------------- size_regex
\* r'(Storage:|Space:|Drive:)[^\d]*(\d+ ?[kKMGT]?B)'
Labels == {"Storage:", "Space:", "Drive:"}

DigitVal == [c \in {"0", "1", "2", "3", "4", "5", "6", "7", "8", "9"} |->
                CASE c = "0" -> 0 [] c = "1" -> 1 [] c = "2" -> 2
                  [] c = "3" -> 3 [] c = "4" -> 4 [] c = "5" -> 5
                  [] c = "6" -> 6 [] c = "7" -> 7 [] c = "8" -> 8
                  [] c = "9" -> 9]

IsDigit(c) == c \in DOMAIN DigitVal

UnitPrefixes == {"k", "K", "M", "G", "T"}

Tags == {"<strong>", "</strong>", "<br>"}

\* re.search found nothing: the Match object is None.
NoMatch == <<>>

Min(S) == CHOOSE x \in S : \A y \in S : x <= y

Max(S) == CHOOSE x \in S : \A y \in S : x >= y

\* The lexeme at index i, "" past the end of the text.
At(t, i) == IF i \in DOMAIN t THEN t[i] ELSE ""

\* The match of [^\d]*(\d+ ?[kKMGT]?B) right after the label at index s:
\* [^\d]* runs to the first digit, \d+ takes the whole digit run, and the
\* unit follows with or without one space.  Group 2, or NoMatch.
MatchAt(t, s) ==
    LET digits == {j \in DOMAIN t : j > s /\ IsDigit(t[j])} IN
    IF digits = {} THEN NoMatch
    ELSE LET j == Min(digits)
             e == Max({x \in j..Len(t) : \A y \in j..x : IsDigit(t[y])})
             z == IF At(t, e + 1) = " " /\ At(t, e + 2) \in UnitPrefixes
                      /\ At(t, e + 3) = "B" THEN e + 3
                  ELSE IF At(t, e + 1) = " " /\ At(t, e + 2) = "B" THEN e + 2
                  ELSE IF At(t, e + 1) \in UnitPrefixes /\ At(t, e + 2) = "B"
                       THEN e + 2
                  ELSE IF At(t, e + 1) = "B" THEN e + 1
                  ELSE 0
         IN IF z = 0 THEN NoMatch ELSE SubSeq(t, j, z)

\* size_regex(text).groups()[-1] of the leftmost match, or NoMatch.
size_regex(t) ==
    LET starts == {s \in DOMAIN t : t[s] \in Labels /\ MatchAt(t, s) # NoMatch}
    IN IF starts = {} THEN NoMatch ELSE MatchAt(t, Min(starts))

\* BeautifulSoup(pc_requirements, "html.parser").get_text()
get_text(t) == SelectSeq(t, LAMBDA c : c \notin Tags)

\* str.split(' ')
RECURSIVE SplitSpace(_)
SplitSpace(s) ==
    LET sp == {i \in DOMAIN s : s[i] = " "} IN
    IF sp = {} THEN <<s>>
    ELSE <<SubSeq(s, 1, Min(sp) - 1)>>
            \o SplitSpace(SubSeq(s, Min(sp) + 1, Len(s)))

\* re.split(r'(\d+)', s): the pieces between the digit runs, with the
\* runs themselves (the pattern is a capturing group).
RECURSIVE ReSplitDigits(_)
ReSplitDigits(s) ==
    LET ds == {i \in DOMAIN s : IsDigit(s[i])} IN
    IF ds = {} THEN <<s>>
    ELSE LET j == Min(ds)
             e == Max({x \in j..Len(s) : \A y \in j..x : IsDigit(s[y])})
         IN <<SubSeq(s, 1, j - 1), SubSeq(s, j, e)>>
                \o ReSplitDigits(SubSeq(s, e + 1, Len(s)))

\* float(s) of a digit string.
RECURSIVE Float(_)
Float(s) ==
    IF s = <<>> THEN 0
    ELSE 10 * Float(SubSeq(s, 1, Len(s) - 1)) + DigitVal[s[Len(s)]]

\* Lines 147-151: the matched token as a list of pieces.
SplitSize(size) ==
    IF " " \in Range(size) THEN SplitSpace(size) ELSE ReSplitDigits(size)

\* Lines 153-164: gigabytes from the pieces.
Normalize(size) ==
    CASE size[2] = <<"T", "B">> -> Rat(Float(size[1]) * 1000, 1)
      [] size[2] = <<"G", "B">> -> Rat(Float(size[1]), 1)
      [] size[2] = <<"M", "B">> -> Rat(Float(size[1]), 1000)
      [] size[2] \in {<<"K", "B">>, <<"k", "B">>} ->
                                   Rat(Float(size[1]), 1000000)
      [] size[2] = <<"B">> -> Rat(Float(size[1]), 1000000000)
      [] OTHER -> SizeSentinel

\* Lines 134-164 for one response: the estimate appended to size_list.
ItemSize(pc_requirements) ==
    LET storage_match == size_regex(get_text(pc_requirements)) IN
    IF storage_match = NoMatch THEN SizeSentinel
    ELSE Normalize(SplitSize(storage_match))

\* What the minimum-requirements fragment of a detail response can be in a
\* pipeline run: a storage line, a storage label with no size after it, or
\* text with no storage mention.
DetailTexts ==
    { <<"<strong>", "Storage:", "</strong>", " ", "1", "0", " ", "G", "B",
        "<br>">>,
      <<"Storage:", " ", "n", "/", "a">>,
      <<"6", "4", "-", "b", "i", "t">> }

\* A detail response either holds [appid]['data']['pc_requirements']
\* ['minimum'] or lacks some key on that path.
DetailResponses ==
    {[kind |-> "requirements", minimum |-> t] : t \in DetailTexts}
        \cup {[kind |-> "no_minimum"]}

\* A review response either holds query_summary.total_reviews and
\* query_summary.total_positive or lacks them.
ReviewResponses ==
    {[kind |-> "summary", total_reviews |-> t, total_positive |-> p] :
        t \in 0..MaxCount, p \in 0..(MaxCount + 1)}
        \cup {[kind |-> "no_summary"]}

ResponsesOf(endpoint) ==
    CASE endpoint = "search" -> SearchResponses
      [] endpoint = "appdetails" -> DetailResponses
      [] endpoint = "appreviews" -> ReviewResponses

Awaiting == {"searching", "detailing", "reviewing"}

\* One in-flight request gets its response: session.get(url) and
\* response.json() / response.text() of async_req return.  out_of_order
\* notes that it overtook a request scheduled before it.
FetchComplete(k) ==
    /\ pc \in Awaiting
    /\ k \in DOMAIN tasks
    /\ tasks[k].status = "pending"
    /\ \E r \in ResponsesOf(tasks[k].url.endpoint) :
         tasks' = [tasks EXCEPT ![k] = [@ EXCEPT !.status = "done",
                                                 !.result = r]]
    /\ out_of_order' = (out_of_order
                            \/ \E j \in 1..(k - 1) : tasks[j].status = "pending")
    /\ UNCHANGED <<pc, input_names, game_names, app_ids, not_found_ids,
                   sizes, review_ratios, new_data, error, text>>

\* One in-flight request raises (transport error): gather re-raises the
\* first exception in the awaiting stage, which nobody catches.
FetchFail(k) ==
    /\ pc \in Awaiting
    /\ k \in DOMAIN tasks
    /\ tasks[k].status = "pending"
    /\ Unwind("ClientError")
    /\ UNCHANGED <<input_names, game_names, text>>

\* -------------------------------------------------------- get_game_sizes
\* Variant of ParseSizes that appends nothing when the pattern is absent.
RECURSIVE ParseSizesSkipNoMatch(_, _, _)
ParseSizesSkipNoMatch(responses, i, size_list) ==
    IF i > Len(responses) THEN [size_list |-> size_list, error |-> "None"]
    ELSE IF responses[i].kind # "requirements"
         THEN [size_list |-> size_list, error |-> "KeyError"]
         ELSE IF size_regex(get_text(responses[i].minimum)) = NoMatch
         THEN ParseSizesSkipNoMatch(responses, i + 1, size_list)
         ELSE ParseSizesSkipNoMatch(responses, i + 1,
                    Append(size_list, ItemSize(responses[i].minimum)))

\* Lines 128-164: the loop over the gathered detail responses; a response
\* without the minimum-requirements path raises at line 132.
RECURSIVE ParseSizes(_, _, _)
ParseSizes(responses, i, size_list) ==
    IF i > Len(responses) THEN [size_list |-> size_list, error |-> "None"]
    ELSE IF responses[i].kind # "requirements"
         THEN [size_list |-> size_list, error |-> "KeyError"]
         ELSE ParseSizes(responses, i + 1,
                    Append(size_list, ItemSize(responses[i].minimum)))

\* Variant of GetGameSizesSchedule that does not wait for get_app_ids.
GetGameSizesScheduleEarly ==
    /\ pc \in {"searching", "resolved"}
    /\ tasks' = [i \in DOMAIN app_ids |-> NewTask("appdetails", app_ids[i])]
    /\ out_of_order' = FALSE
    /\ pc' = "detailing"
    /\ UNCHANGED <<input_names, game_names, app_ids, not_found_ids, sizes,
                   review_ratios, new_data, error, text>>

\* list(map(str, appids)) and lines 121-124: one detail fetch per appid.
GetGameSizesSchedule ==
    /\ pc = "resolved"
    /\ tasks' = [i \in DOMAIN app_ids |-> NewTask("appdetails", app_ids[i])]
    /\ out_of_order' = FALSE
    /\ pc' = "detailing"
    /\ UNCHANGED <<input_names, game_names, app_ids, not_found_ids, sizes,
                   review_ratios, new_data, error, text>>

\* Lines 126-168: gather returns, the sizes are extracted.
GetGameSizesParse ==
    /\ pc = "detailing"
    /\ AllDone(tasks)
    /\ LET r == ParseSizes(Gather(tasks), 1, <<>>) IN
         IF r.error # "None"
         THEN Unwind(r.error)
         ELSE /\ sizes' = r.size_list
              /\ pc' = "sized"
              /\ UNCHANGED <<app_ids, not_found_ids, tasks, out_of_order,
                             review_ratios, new_data, error>>
    /\ UNCHANGED <<input_names, game_names, text>>

\* ------------------------------------------------ get_game_review_ratios
\* Variant of Ratio without the total_reviews == 0 branch.
RatioNoZeroCheck(total_reviews, positive_reviews) ==
    Rat(positive_reviews, total_reviews)

\* Lines 191-194.
Ratio(total_reviews, positive_reviews) ==
    IF total_reviews = 0 THEN Rat(0, 1)
    ELSE Rat(positive_reviews, total_reviews)

\* Lines 185-198: the loop over the gathered review responses.
RECURSIVE ParseReviews(_, _, _)
ParseReviews(responses, i, ratios) ==
    IF i > Len(responses) THEN [review_ratios |-> ratios, error |-> "None"]
    ELSE IF responses[i].kind # "summary"
         THEN [review_ratios |-> ratios, error |-> "KeyError"]
         ELSE ParseReviews(responses, i + 1,
                    Append(ratios, Ratio(responses[i].total_reviews,
                                         responses[i].total_positive)))

\* Lines 173-181: one review fetch per appid.
GetGameReviewRatiosSchedule ==
    /\ pc = "sized"
    /\ tasks' = [i \in DOMAIN app_ids |-> NewTask("appreviews", app_ids[i])]
    /\ out_of_order' = FALSE
    /\ pc' = "reviewing"
    /\ UNCHANGED <<input_names, game_names, app_ids, not_found_ids, sizes,
                   review_ratios, new_data, error, text>>

\* ---------------------------------------------------------------- process
\* Variant of BuildRecords that leaves out the unresolved names.
BuildRecordsResolvedOnly(names, ids, szs, ratios) ==
    LET all == [i \in DOMAIN names |->
                    [name |-> names[i], appid |-> ids[i], size |-> szs[i],
                     review_ratio |-> ratios[i]]]
    IN SelectSeq(all, LAMBDA rec : rec.appid # -1)

\* Lines 214-215: the list comprehension over range(len(game_names)).
BuildRecords(names, ids, szs, ratios) ==
    [i \in DOMAIN names |->
        [name |-> names[i], appid |-> ids[i], size |-> szs[i],
         review_ratio |-> ratios[i]]]

\* Lines 183-198 and 214-217: gather returns, the ratios are computed,
\* get_game_review_ratios returns and process builds and returns new_data
\* (no suspension point in between).
GetGameReviewRatiosParse ==
    /\ pc = "reviewing"
    /\ AllDone(tasks)
    /\ LET r == ParseReviews(Gather(tasks), 1, <<>>) IN
         IF r.error # "None"
         THEN Unwind(r.error)
         ELSE /\ review_ratios' = r.review_ratios
              /\ new_data' = BuildRecords(game_names, app_ids, sizes,
                                          r.review_ratios)
              /\ pc' = "done"
              /\ UNCHANGED <<app_ids, not_found_ids, tasks, out_of_order,
                             sizes, error>>
    /\ UNCHANGED <<input_names, game_names, text>>

\* ------------------------------------------------------------ the pipeline
\* process(game_names) is called with a non-empty list of names.
Init ==
    /\ pc = "start"
    /\ input_names \in SeqsUpTo(GameNames, MaxNames)
    /\ game_names = input_names
    /\ app_ids = <<>>
    /\ not_found_ids = <<>>
    /\ tasks = <<>>
    /\ out_of_order = FALSE
    /\ sizes = <<>>
    /\ review_ratios = <<>>
    /\ new_data = <<>>
    /\ error = "None"
    /\ text = <<>>

Next ==
    \/ GetAppIdsSchedule
    \/ \E k \in DOMAIN tasks : FetchComplete(k)
    \/ \E k \in DOMAIN tasks : FetchFail(k)
    \/ GetAppIdsParse
    \/ GetGameSizesSchedule
    \/ GetGameSizesParse
    \/ GetGameReviewRatiosSchedule
    \/ GetGameReviewRatiosParse

Spec == Init /\ [][Next]_vars

\* ------------------------------------------- the size extraction by itself
\* The texts the extraction is applied to on its own: a label word, a gap,
\* a magnitude of up to MaxDigits digits, an optional space, a unit.
SomeDigits == {"0", "1", "5"}

Units == {<<"B">>, <<"K", "B">>, <<"k", "B">>, <<"M", "B">>, <<"G", "B">>,
          <<"T", "B">>}

Magnitudes == SeqsUpTo(SomeDigits, MaxDigits)

Gaps == {<<" ">>, <<"</strong>", " ">>}

Spacings == {<<>>, <<" ">>}

SizeText(lab, gap, mag, sp, unit) == <<lab>> \o gap \o mag \o sp \o unit

SizeTexts ==
    {SizeText(lab, gap, mag, sp, unit) :
        lab \in Labels \cup {"Memory:"}, gap \in Gaps, mag \in Magnitudes,
        sp \in Spacings,
        unit \in Units \cup {<<"P", "B">>, <<"G", "b">>, <<>>}}

InitSize ==
    /\ pc = "text"
    /\ text \in SizeTexts
    /\ input_names = <<>>
    /\ game_names = <<>>
    /\ app_ids = <<>>
    /\ not_found_ids = <<>>
    /\ tasks = <<>>
    /\ out_of_order = FALSE
    /\ sizes = <<>>
    /\ review_ratios = <<>>
    /\ new_data = <<>>
    /\ error = "None"

\* Lines 134-164 applied to one minimum-requirements text.
ExtractSize ==
    /\ pc = "text"
    /\ sizes' = <<ItemSize(text)>>
    /\ pc' = "extracted"
    /\ UNCHANGED <<input_names, game_names, app_ids, not_found_ids, tasks,
                   out_of_order, review_ratios, new_data, error, text>>

NextSize == ExtractSize

SpecSize == InitSize /\ [][NextSize]_vars

\* ================================================================= claims
IsHit(p) == input_names[p] \in DOMAIN APP_NAME_TO_ID_DICT

TableValue(p) == APP_NAME_TO_ID_DICT[input_names[p]]

\* The identifier a search response stands for: the parsed one, or -1.
IdOf(r) == IF r.kind = "found" THEN r.appid ELSE -1

HasIds == pc \in {"resolved", "detailing", "sized", "reviewing", "done"}

\* C1: when get_app_ids has returned, app_ids is as long as the input and
\* every position holds the table's value for its name, the identifier
\* parsed from the response to the search for its name, or -1; never None.
C1_IdsCoverInput ==
    HasIds =>
        /\ Len(app_ids) = Len(input_names)
        /\ \A p \in DOMAIN app_ids : app_ids[p] # None
        /\ pc = "resolved" =>
             \A p \in DOMAIN app_ids :
                \/ IsHit(p) /\ app_ids[p] = TableValue(p)
                \/ \E k \in DOMAIN tasks :
                      /\ not_found_ids[k] = p
                      /\ tasks[k].url.arg = input_names[p]
                      /\ tasks[k].result.kind = "found"
                      /\ app_ids[p] = tasks[k].result.appid
                \/ app_ids[p] = -1

C1_Witness ==
    /\ pc = "resolved"
    /\ Len(app_ids) = 2
    /\ \E p, q \in DOMAIN app_ids : app_ids[p] = -1 /\ app_ids[q] = 400

\* C2: a position whose name is a key of the table gets no search fetch
\* (neither a task nor an entry of not_found_ids) and holds exactly the
\* table's value, whatever the searches for the other positions return.
C2_HitsNeverFetched ==
    /\ pc \in {"searching", "resolved"} =>
         /\ Len(tasks) = Len(not_found_ids)
         /\ Len(tasks) = Cardinality({p \in DOMAIN input_names : ~IsHit(p)})
         /\ \A k \in DOMAIN tasks :
               /\ ~IsHit(not_found_ids[k])
               /\ tasks[k].url.arg \notin DOMAIN APP_NAME_TO_ID_DICT
    /\ (HasIds \/ pc = "searching") =>
         \A p \in DOMAIN input_names : IsHit(p) => app_ids[p] = TableValue(p)

C2_Witness ==
    /\ pc = "resolved"
    /\ \E p, q \in DOMAIN input_names :
          /\ IsHit(p) /\ app_ids[p] = 220
          /\ ~IsHit(q) /\ app_ids[q] = 400

\* C3: whatever the order in which the search fetches completed, the
\* identifier of the response to the k-th scheduled fetch is at position
\* not_found_ids[k], the position of the name that fetch searched for, and
\* the positions of lookup hits keep the table's value.
C3_DemuxByIndexList ==
    pc = "resolved" =>
        /\ \A k \in DOMAIN tasks :
              /\ tasks[k].url.arg = input_names[not_found_ids[k]]
              /\ app_ids[not_found_ids[k]] = IdOf(tasks[k].result)
        /\ \A p \in DOMAIN input_names : IsHit(p) => app_ids[p] = TableValue(p)

C3_Witness ==
    /\ pc = "resolved"
    /\ out_of_order
    /\ Len(tasks) = 2
    /\ tasks[1].result.kind = "found"
    /\ tasks[2].result.kind = "no_result"
    /\ app_ids[not_found_ids[1]] = 400
    /\ app_ids[not_found_ids[2]] = -1

OnlyFoundOrNoResult ==
    \A k \in DOMAIN tasks : tasks[k].result.kind \in {"found", "no_result"}

\* C4: a search response without a result element puts -1 at its position
\* and does not abort: once every search response is in and each either
\* has a result or has none, get_app_ids returns, with -1 at the positions
\* without a result and every other position at its resolved identifier.
C4_NoResultIsSentinel ==
    [][(pc = "searching" /\ AllDone(tasks) /\ OnlyFoundOrNoResult
            /\ pc' # pc) =>
          /\ pc' = "resolved"
          /\ \A k \in DOMAIN tasks :
                app_ids'[not_found_ids[k]] = IdOf(tasks[k].result)
          /\ \A p \in DOMAIN input_names :
                IsHit(p) => app_ids'[p] = TableValue(p)]_vars

C4_Witness ==
    /\ pc = "resolved"
    /\ \E k \in DOMAIN tasks :
          tasks[k].result.kind = "no_result" /\ app_ids[not_found_ids[k]] = -1
    /\ \E p \in DOMAIN app_ids : app_ids[p] # -1

\* What C5 says a token of magnitude m and unit u is worth in gigabytes.
Gigabytes(m, u) ==
    CASE u = <<"T", "B">> -> Rat(m * 1000, 1)
      [] u = <<"G", "B">> -> Rat(m, 1)
      [] u = <<"M", "B">> -> Rat(m, 1000)
      [] u \in {<<"K", "B">>, <<"k", "B">>} -> Rat(m, 1000000)
      [] u = <<"B">> -> Rat(m, 1000000000)

\* C5: a matched token of magnitude M and unit U in {B, KB, kB, MB, GB, TB}
\* is normalized to M*1000, M, M/1000, M/1,000,000, M/1,000,000,000
\* gigabytes, written with a space ('10 GB') or run together ('10GB').
C5_UnitNormalization ==
    pc = "extracted" =>
        \A lab \in Labels, gap \in Gaps, mag \in Magnitudes,
           sp \in Spacings, unit \in Units :
            text = SizeText(lab, gap, mag, sp, unit) =>
                sizes[1] = Gigabytes(Float(mag), unit)

\* C6: an item whose stripped minimum-requirements text has no match of
\* the size pattern gets -1 at its position; the other items are still
\* processed, and sizes has one estimate per identifier, in order.
C6_NoMatchIsSentinel ==
    pc = "sized" =>
        /\ Len(sizes) = Len(app_ids)
        /\ \A i \in DOMAIN tasks :
              /\ tasks[i].url.arg = app_ids[i]
              /\ IF size_regex(get_text(tasks[i].result.minimum)) = NoMatch
                 THEN sizes[i] = SizeSentinel
                 ELSE sizes[i] = Rat(10, 1)

C6_Witness ==
    /\ pc = "sized"
    /\ \E i, j \in DOMAIN sizes :
          /\ \A x \in DOMAIN tasks[i].result.minimum :
                tasks[i].result.minimum[x] \notin Labels
          /\ sizes[i] = SizeSentinel
          /\ i < j
          /\ sizes[j] = Rat(10, 1)

InUnitInterval(q) == q.d > 0 /\ 0 <= q.n /\ q.n <= q.d

RatioIsComputed(i) ==
    LET r == tasks[i].result IN
    /\ tasks[i].url.arg = app_ids[i]
    /\ r.total_reviews = 0 => review_ratios[i] = Rat(0, 1)
    /\ r.total_reviews # 0 =>
          review_ratios[i] = Rat(r.total_positive, r.total_reviews)

StageOf(ts) == IF ts = <<>> THEN "none" ELSE ts[1].url.endpoint

\* C8: the stages are separated by barriers.  A step that issues detail
\* fetches finds every search fetch completed and a step that issues
\* review fetches finds every detail fetch completed; and whenever a stage
\* is awaiting responses, all of its fetches have been issued: one per
\* name missing from the table, or one per identifier.
C8_StageBarriers ==
    /\ [][(StageOf(tasks') \in {"appdetails", "appreviews"}
              /\ StageOf(tasks') # StageOf(tasks)) =>
            /\ AllDone(tasks)
            /\ pc = (IF StageOf(tasks') = "appdetails" THEN "resolved"
                     ELSE "sized")
            /\ StageOf(tasks) \in
                  (IF StageOf(tasks') = "appdetails" THEN {"none", "search"}
                   ELSE {"appdetails"})]_vars
    /\ [](pc \in Awaiting =>
            /\ \A k \in DOMAIN tasks :
                  tasks[k].url.endpoint =
                      (CASE pc = "searching" -> "search"
                         [] pc = "detailing" -> "appdetails"
                         [] pc = "reviewing" -> "appreviews")
            /\ Len(tasks) = (IF pc = "searching"
                             THEN Cardinality({p \in DOMAIN input_names :
                                                 ~IsHit(p)})
                             ELSE Len(input_names)))

C8_Witness ==
    /\ pc = "detailing"
    /\ Len(not_found_ids) = 2
    /\ out_of_order
    /\ tasks[1].status = "pending"
    /\ tasks[2].status = "done"

\* C9: a run of process ends with one record per input name, in input
\* order, record i built from the name, identifier, size and ratio at index
\* i, or it fails with an error and there are no records; records for only
\* some of the inputs never exist.
C9_AllOrNothing ==
    /\ pc = "done" =>
         /\ error = "None"
         /\ Len(new_data) = Len(input_names)
         /\ \A i \in DOMAIN new_data :
               new_data[i] = [name |-> game_names[i], appid |-> app_ids[i],
                              size |-> sizes[i],
                              review_ratio |-> review_ratios[i]]
    /\ pc = "failed" => error # "None" /\ new_data = <<>>
    /\ pc \notin {"done", "failed"} => new_data = <<>>

C9_Witness ==
    /\ pc = "done"
    /\ Len(new_data) = 2
    /\ new_data[1].appid = -1
    /\ new_data[1].size = SizeSentinel
    /\ new_data[2].appid = 220
    /\ new_data[2].size = Rat(10, 1)
    /\ new_data[2].review_ratio = Rat(1, 1)

\* C10: a detail response without the minimum-requirements field is
\* treated like "no pattern match": once every detail response is in,
\* get_game_sizes returns, with -1 at the positions of the responses that
\* lack the field.
C10_MissingFieldIsSentinel ==
    [][(pc = "detailing" /\ AllDone(tasks) /\ pc' # pc) =>
          /\ pc' = "sized"
          /\ Len(sizes') = Len(app_ids)
          /\ \A i \in DOMAIN tasks :
                tasks[i].result.kind = "no_minimum" =>
                    sizes'[i] = SizeSentinel]_vars

====
